---------------------------- MODULE Spec2Model ----------------------------
(***************************************************************************)
(* A model of the rule service of src/main.rs: the RuleType registry and   *)
(* its two textual mappings (Display and the serde derive), Rule::validate *)
(* with its three grammars, the global RULES collection behind its tokio   *)
(* Mutex, the handlers get_rules / add_rule / delete_rule, and the         *)
(* persistence functions save_rules / load_rules over the file rules.json. *)
(*                                                                         *)
(* Strings are sequences of one-character strings, so that the grammars    *)
(* and the case conversion of the serde rename are computed, not assumed.  *)
(***************************************************************************)
EXTENDS Integers, Sequences, FiniteSets, TLC

(***************************************************************************)
(* Characters                                                              *)
(***************************************************************************)
DigitChars == <<"0", "1", "2", "3", "4", "5", "6", "7", "8", "9">>

LowerChars ==
  <<"a", "b", "c", "d", "e", "f", "g", "h", "i", "j", "k", "l", "m",
    "n", "o", "p", "q", "r", "s", "t", "u", "v", "w", "x", "y", "z">>

UpperChars ==
  <<"A", "B", "C", "D", "E", "F", "G", "H", "I", "J", "K", "L", "M",
    "N", "O", "P", "Q", "R", "S", "T", "U", "V", "W", "X", "Y", "Z">>

Range(s) == {s[i] : i \in DOMAIN s}

IndexOf(s, c) == CHOOSE i \in DOMAIN s : s[i] = c

IsDigit(c) == c \in Range(DigitChars)

IsAlnum(c) == c \in Range(DigitChars) \cup Range(LowerChars) \cup Range(UpperChars)

\* char::to_digit(radix) as the parsers use it: the digit's value, or -1.
DigitValue(c, radix) ==
  IF c \in Range(DigitChars) THEN IndexOf(DigitChars, c) - 1
  ELSE IF radix = 16 /\ c \in Range(SubSeq(LowerChars, 1, 6)) THEN 9 + IndexOf(LowerChars, c)
  ELSE IF radix = 16 /\ c \in Range(SubSeq(UpperChars, 1, 6)) THEN 9 + IndexOf(UpperChars, c)
  ELSE -1

\* str::to_ascii_uppercase, which serde's rename_all = "UPPERCASE" applies
\* to the identifier of each variant.
ToAsciiUppercase(s) ==
  [i \in DOMAIN s |->
     IF s[i] \in Range(LowerChars) THEN UpperChars[IndexOf(LowerChars, s[i])] ELSE s[i]]

\* u16::MAX, the largest port number.
U16Max == 65535

(***************************************************************************)
(* The RuleType registry                                                   *)
(***************************************************************************)
\* The 29 variants of enum RuleType, in declaration order.
RuleTypes ==
  <<"Domain", "DomainSuffix", "DomainKeyword", "DomainWildcard", "DomainRegex",
    "Geosite", "IpCidr", "IpCidr6", "IpSuffix", "IpAsn",
    "Geoip", "SrcGeoip", "SrcIpAsn", "SrcIpCidr", "SrcIpSuffix",
    "DstPort", "SrcPort", "InPort", "InType", "InUser",
    "InName", "ProcessPath", "ProcessPathRegex", "ProcessName", "ProcessNameRegex",
    "Uid", "Network", "Dscp", "Match">>

VariantIdent ==
  [ Domain |-> <<"D", "o", "m", "a", "i", "n">>,
    DomainSuffix |-> <<"D", "o", "m", "a", "i", "n", "S", "u", "f", "f", "i", "x">>,
    DomainKeyword |-> <<"D", "o", "m", "a", "i", "n", "K", "e", "y", "w", "o", "r", "d">>,
    DomainWildcard |-> <<"D", "o", "m", "a", "i", "n", "W", "i", "l", "d", "c", "a", "r", "d">>,
    DomainRegex |-> <<"D", "o", "m", "a", "i", "n", "R", "e", "g", "e", "x">>,
    Geosite |-> <<"G", "e", "o", "s", "i", "t", "e">>,
    IpCidr |-> <<"I", "p", "C", "i", "d", "r">>,
    IpCidr6 |-> <<"I", "p", "C", "i", "d", "r", "6">>,
    IpSuffix |-> <<"I", "p", "S", "u", "f", "f", "i", "x">>,
    IpAsn |-> <<"I", "p", "A", "s", "n">>,
    Geoip |-> <<"G", "e", "o", "i", "p">>,
    SrcGeoip |-> <<"S", "r", "c", "G", "e", "o", "i", "p">>,
    SrcIpAsn |-> <<"S", "r", "c", "I", "p", "A", "s", "n">>,
    SrcIpCidr |-> <<"S", "r", "c", "I", "p", "C", "i", "d", "r">>,
    SrcIpSuffix |-> <<"S", "r", "c", "I", "p", "S", "u", "f", "f", "i", "x">>,
    DstPort |-> <<"D", "s", "t", "P", "o", "r", "t">>,
    SrcPort |-> <<"S", "r", "c", "P", "o", "r", "t">>,
    InPort |-> <<"I", "n", "P", "o", "r", "t">>,
    InType |-> <<"I", "n", "T", "y", "p", "e">>,
    InUser |-> <<"I", "n", "U", "s", "e", "r">>,
    InName |-> <<"I", "n", "N", "a", "m", "e">>,
    ProcessPath |-> <<"P", "r", "o", "c", "e", "s", "s", "P", "a", "t", "h">>,
    ProcessPathRegex |-> <<"P", "r", "o", "c", "e", "s", "s", "P", "a", "t", "h", "R", "e", "g", "e", "x">>,
    ProcessName |-> <<"P", "r", "o", "c", "e", "s", "s", "N", "a", "m", "e">>,
    ProcessNameRegex |-> <<"P", "r", "o", "c", "e", "s", "s", "N", "a", "m", "e", "R", "e", "g", "e", "x">>,
    Uid |-> <<"U", "i", "d">>,
    Network |-> <<"N", "e", "t", "w", "o", "r", "k">>,
    Dscp |-> <<"D", "s", "c", "p">>,
    Match |-> <<"M", "a", "t", "c", "h">> ]

DisplayToken ==
  [ Domain |-> <<"D", "O", "M", "A", "I", "N">>,
    DomainSuffix |-> <<"D", "O", "M", "A", "I", "N", "-", "S", "U", "F", "F", "I", "X">>,
    DomainKeyword |-> <<"D", "O", "M", "A", "I", "N", "-", "K", "E", "Y", "W", "O", "R", "D">>,
    DomainWildcard |-> <<"D", "O", "M", "A", "I", "N", "-", "W", "I", "L", "D", "C", "A", "R", "D">>,
    DomainRegex |-> <<"D", "O", "M", "A", "I", "N", "-", "R", "E", "G", "E", "X">>,
    Geosite |-> <<"G", "E", "O", "S", "I", "T", "E">>,
    IpCidr |-> <<"I", "P", "-", "C", "I", "D", "R">>,
    IpCidr6 |-> <<"I", "P", "-", "C", "I", "D", "R", "6">>,
    IpSuffix |-> <<"I", "P", "-", "S", "U", "F", "F", "I", "X">>,
    IpAsn |-> <<"I", "P", "-", "A", "S", "N">>,
    Geoip |-> <<"G", "E", "O", "I", "P">>,
    SrcGeoip |-> <<"S", "R", "C", "-", "G", "E", "O", "I", "P">>,
    SrcIpAsn |-> <<"S", "R", "C", "-", "I", "P", "-", "A", "S", "N">>,
    SrcIpCidr |-> <<"S", "R", "C", "-", "I", "P", "-", "C", "I", "D", "R">>,
    SrcIpSuffix |-> <<"S", "R", "C", "-", "I", "P", "-", "S", "U", "F", "F", "I", "X">>,
    DstPort |-> <<"D", "S", "T", "-", "P", "O", "R", "T">>,
    SrcPort |-> <<"S", "R", "C", "-", "P", "O", "R", "T">>,
    InPort |-> <<"I", "N", "-", "P", "O", "R", "T">>,
    InType |-> <<"I", "N", "-", "T", "Y", "P", "E">>,
    InUser |-> <<"I", "N", "-", "U", "S", "E", "R">>,
    InName |-> <<"I", "N", "-", "N", "A", "M", "E">>,
    ProcessPath |-> <<"P", "R", "O", "C", "E", "S", "S", "-", "P", "A", "T", "H">>,
    ProcessPathRegex |-> <<"P", "R", "O", "C", "E", "S", "S", "-", "P", "A", "T", "H", "-", "R", "E", "G", "E", "X">>,
    ProcessName |-> <<"P", "R", "O", "C", "E", "S", "S", "-", "N", "A", "M", "E">>,
    ProcessNameRegex |-> <<"P", "R", "O", "C", "E", "S", "S", "-", "N", "A", "M", "E", "-", "R", "E", "G", "E", "X">>,
    Uid |-> <<"U", "I", "D">>,
    Network |-> <<"N", "E", "T", "W", "O", "R", "K">>,
    Dscp |-> <<"D", "S", "C", "P">>,
    Match |-> <<"M", "A", "T", "C", "H">> ]

RuleType == Range(RuleTypes)

\* impl Display for RuleType: the token of GET /rules.
toToken(v) == DisplayToken[v]

\* #[derive(Serialize)] with rename_all = "UPPERCASE": the token written for
\* a variant in JSON (the persisted file).
SerdeUppercase(v) == ToAsciiUppercase(VariantIdent[v])

serializeRuleType(v) == SerdeUppercase(v)

UnknownVariant == "unknown variant"

\* #[derive(Deserialize)] with the same rename: the variant whose serde name
\* is the token, an error for any other string (request bodies and the file).
fromToken(tok) ==
  IF \E v \in RuleType : SerdeUppercase(v) = tok
  THEN CHOOSE v \in RuleType : SerdeUppercase(v) = tok
  ELSE UnknownVariant

(***************************************************************************)
(* Rule and Rule::validate                                                 *)
(***************************************************************************)
\* struct Rule; derive(PartialEq): equal iff both fields are equal.
Rule(t, val) == [rule_type |-> t, value |-> val]

\* A result or an error of the program: a tag and, for the three validation
\* errors, the offending value (RuleError's String payload).
Res(tag) == [tag |-> tag, value |-> <<>>]

Err(tag, val) == [tag |-> tag, value |-> val]

Ok == Res("Ok")

\* <u16 as FromStr>::from_str: an optional "+", then decimal digits whose
\* value fits 16 bits; the value, or -1 for a ParseIntError.
RECURSIVE U16Digits(_, _, _)
U16Digits(s, i, acc) ==
  IF i > Len(s) THEN acc
  ELSE LET d == DigitValue(s[i], 10)
       IN  IF d < 0 THEN -1
           ELSE IF acc * 10 + d > U16Max THEN -1
           ELSE U16Digits(s, i + 1, acc * 10 + d)

ParseU16(s) ==
  IF Len(s) = 0 THEN -1
  ELSE IF Len(s) = 1 /\ s[1] \in {"+", "-"} THEN -1
  ELSE IF s[1] = "+" THEN U16Digits(s, 2, 0)
  ELSE U16Digits(s, 1, 0)

\* str::split(sep).collect(): the parts between the separators, empty parts
\* included.
RECURSIVE SplitFrom(_, _, _, _)
SplitFrom(s, sep, i, cur) ==
  IF i > Len(s) THEN <<cur>>
  ELSE IF s[i] = sep THEN <<cur>> \o SplitFrom(s, sep, i + 1, <<>>)
  ELSE SplitFrom(s, sep, i + 1, Append(cur, s[i]))

Split(s, sep) == SplitFrom(s, sep, 1, <<>>)

is_valid_port(port) ==
  IF ParseU16(port) >= 0 THEN TRUE
  ELSE LET parts == Split(port, "-")
       IN  IF Len(parts) = 2
           THEN ParseU16(parts[1]) >= 0 /\ ParseU16(parts[2]) >= 0
           ELSE FALSE

\* The class [a-zA-Z0-9-_.] of the domain pattern.
DomainInner(c) == IsAlnum(c) \/ c \in {"-", "_", "."}

\* The pattern with * in place of +: no inner character is asked for.
is_valid_domain_star(domain) ==
  \E n \in 0..Len(domain) :
     /\ Len(domain) = n + 2
     /\ IsAlnum(domain[1])
     /\ \A i \in 2..(n + 1) : DomainInner(domain[i])
     /\ IsAlnum(domain[n + 2])

\* Regex ^[a-zA-Z0-9][a-zA-Z0-9-_.]+[a-zA-Z0-9]$ matched against the whole
\* value: one boundary character, one or more inner ones, one boundary.
is_valid_domain(domain) ==
  \E n \in 1..Len(domain) :
     /\ Len(domain) = n + 2
     /\ IsAlnum(domain[1])
     /\ \A i \in 2..(n + 1) : DomainInner(domain[i])
     /\ IsAlnum(domain[n + 2])

\* ipnet's parser (IpNet::from_str): a position in the text and what was read.
NoParse == [ok |-> FALSE, pos |-> 0, val |-> 0]

Parsed(pos, val) == [ok |-> TRUE, pos |-> pos, val |-> val]

ReadGivenChar(s, i, c) == i <= Len(s) /\ s[i] = c

\* read_number(radix, max_digits, upto): all the digits that follow, failing
\* on none, on more than max_digits, or on a value that reaches upto.
RECURSIVE ReadNumberLoop(_, _, _, _, _, _, _)
ReadNumberLoop(s, i, radix, maxDigits, upto, r, count) ==
  IF i <= Len(s) /\ DigitValue(s[i], radix) >= 0
  THEN LET r2 == r * radix + DigitValue(s[i], radix)
       IN  IF count + 1 > maxDigits \/ r2 >= upto THEN NoParse
           ELSE ReadNumberLoop(s, i + 1, radix, maxDigits, upto, r2, count + 1)
  ELSE IF count = 0 THEN NoParse ELSE Parsed(i, r)

ReadNumber(s, i, radix, maxDigits, upto) ==
  ReadNumberLoop(s, i, radix, maxDigits, upto, 0, 0)

\* read_ipv4_addr: four octets below 256 of at most three digits, dots between.
RECURSIVE ReadOctets(_, _, _)
ReadOctets(s, i, k) ==
  IF k = 4 THEN Parsed(i, 0)
  ELSE IF k # 0 /\ ~ReadGivenChar(s, i, ".") THEN NoParse
  ELSE LET o == ReadNumber(s, IF k # 0 THEN i + 1 ELSE i, 10, 3, 256)
       IN  IF o.ok THEN ReadOctets(s, o.pos, k + 1) ELSE NoParse

ReadIpv4Addr(s, i) == ReadOctets(s, i, 0)

\* read_ipv4_net: address "/" prefix length below 33, at most two digits.
ReadIpv4Net(s, i) ==
  LET a == ReadIpv4Addr(s, i)
  IN  IF a.ok /\ ReadGivenChar(s, a.pos, "/")
      THEN ReadNumber(s, a.pos + 1, 10, 2, 33)
      ELSE NoParse

\* read_groups of read_ipv6_addr: up to limit groups of at most four hex
\* digits, colons between, an embedded IPv4 address counting for two groups
\* and ending the run. val is the number of groups, v4 whether it ended so.
RECURSIVE ReadGroups(_, _, _, _)
ReadGroups(s, i, limit, k) ==
  IF k >= limit THEN [ok |-> TRUE, pos |-> i, val |-> k, v4 |-> FALSE]
  ELSE LET sep  == k = 0 \/ ReadGivenChar(s, i, ":")
           from == IF k = 0 THEN i ELSE i + 1
           ipv4 == IF k < limit - 1 /\ sep THEN ReadIpv4Addr(s, from) ELSE NoParse
           grp  == IF sep THEN ReadNumber(s, from, 16, 4, 65536) ELSE NoParse
       IN  IF ipv4.ok THEN [ok |-> TRUE, pos |-> ipv4.pos, val |-> k + 2, v4 |-> TRUE]
           ELSE IF grp.ok THEN ReadGroups(s, grp.pos, limit, k + 1)
           ELSE [ok |-> TRUE, pos |-> i, val |-> k, v4 |-> FALSE]

\* read_ipv6_addr: eight groups, or a head and a tail around one "::".
ReadIpv6Addr(s, i) ==
  LET head == ReadGroups(s, i, 8, 0)
  IN  IF head.val = 8 THEN Parsed(head.pos, 0)
      ELSE IF head.v4 THEN NoParse
      ELSE IF ~(ReadGivenChar(s, head.pos, ":") /\ ReadGivenChar(s, head.pos + 1, ":"))
      THEN NoParse
      ELSE Parsed(ReadGroups(s, head.pos + 2, 8 - head.val, 0).pos, 0)

\* read_ipv6_net: address "/" prefix length below 129, at most three digits.
ReadIpv6Net(s, i) ==
  LET a == ReadIpv6Addr(s, i)
  IN  IF a.ok /\ ReadGivenChar(s, a.pos, "/")
      THEN ReadNumber(s, a.pos + 1, 10, 3, 129)
      ELSE NoParse

\* IpNet::from_str(value).is_ok(): an IPv4 network, else an IPv6 network,
\* read from the start and ending at the end of the text.
IpNetFromStrOk(s) ==
  LET v4 == ReadIpv4Net(s, 1)
      v6 == ReadIpv6Net(s, 1)
  IN  IF v4.ok THEN v4.pos = Len(s) + 1
      ELSE v6.ok /\ v6.pos = Len(s) + 1

IpNetKinds == {"IpCidr", "IpCidr6", "SrcIpCidr"}

DomainKinds == {"Domain", "DomainSuffix", "DomainKeyword"}

PortKinds == {"DstPort", "SrcPort", "InPort"}

\* A validate that asks IpCidr6 for an IPv6 network and the two other
\* network kinds for an IPv4 one.
validateFamilyOfKind(rule) ==
  IF rule.rule_type \in IpNetKinds
  THEN LET v4 == ReadIpv4Net(rule.value, 1)
           v6 == ReadIpv6Net(rule.value, 1)
           n  == IF rule.rule_type = "IpCidr6" THEN v6 ELSE v4
       IN  IF n.ok /\ n.pos = Len(rule.value) + 1 THEN Ok
           ELSE Err("InvalidIpCidr", rule.value)
  ELSE IF rule.rule_type \in DomainKinds
  THEN IF ~is_valid_domain(rule.value) THEN Err("InvalidDomain", rule.value) ELSE Ok
  ELSE IF rule.rule_type \in PortKinds
  THEN IF ~is_valid_port(rule.value) THEN Err("InvalidPort", rule.value) ELSE Ok
  ELSE Ok

\* A validate whose last arm refuses the empty string.
validateNonEmpty(rule) ==
  IF rule.rule_type \in IpNetKinds
  THEN IF ~IpNetFromStrOk(rule.value) THEN Err("InvalidIpCidr", rule.value) ELSE Ok
  ELSE IF rule.rule_type \in DomainKinds
  THEN IF ~is_valid_domain(rule.value) THEN Err("InvalidDomain", rule.value) ELSE Ok
  ELSE IF rule.rule_type \in PortKinds
  THEN IF ~is_valid_port(rule.value) THEN Err("InvalidPort", rule.value) ELSE Ok
  ELSE IF rule.value = <<>> THEN Err("InvalidDomain", rule.value)
  ELSE Ok

\* A validate whose match has no arm for the port kinds.
validateNoPortArm(rule) ==
  IF rule.rule_type \in IpNetKinds
  THEN IF ~IpNetFromStrOk(rule.value) THEN Err("InvalidIpCidr", rule.value) ELSE Ok
  ELSE IF rule.rule_type \in DomainKinds
  THEN IF ~is_valid_domain(rule.value) THEN Err("InvalidDomain", rule.value) ELSE Ok
  ELSE Ok

\* Rule::validate: the grammar of the rule's kind, none for the other kinds.
validate(rule) ==
  IF rule.rule_type \in IpNetKinds
  THEN IF ~IpNetFromStrOk(rule.value) THEN Err("InvalidIpCidr", rule.value) ELSE Ok
  ELSE IF rule.rule_type \in DomainKinds
  THEN IF ~is_valid_domain(rule.value) THEN Err("InvalidDomain", rule.value) ELSE Ok
  ELSE IF rule.rule_type \in PortKinds
  THEN IF ~is_valid_port(rule.value) THEN Err("InvalidPort", rule.value) ELSE Ok
  ELSE Ok

(***************************************************************************)
(* Values the requests and the persisted file are drawn from               *)
(***************************************************************************)
StrDomain == <<"a", ".", "b">>

StrBang == <<"!", "!">>

StrNet == <<"1", "0", ".", "0", ".", "0", ".", "0", "/", "8">>

StrPort == <<"8", "0">>

\* A value with a character outside ASCII.
StrAccent == <<"é">>

\* The characters of the values whose UTF-8 encoding has more than one byte.
MultiByteChars == {"é"}

\* The bodies of the POST requests, decoded: a well-formed rule, a rule of
\* a kind without grammar whose value is not ASCII, and an ill-formed rule
\* of each validated class.
RuleInputs ==
  { Rule("Domain", StrDomain), Rule("Match", StrAccent),
    Rule("Domain", StrBang), Rule("IpCidr", StrPort), Rule("DstPort", StrDomain) }

\* The bodies of the DELETE requests: a well-formed rule and an ill-formed
\* one, both of which a file may hold.
DeleteInputs ==
  { Rule("DstPort", StrPort), Rule("Domain", StrBang) }

NoRule == [rule_type |-> "none", value |-> <<>>]

\* rules.json: its content (no file, bytes that are not UTF-8, text that is
\* not a JSON array of rule objects, or such an array: its entries, each the
\* token written for the kind and the value; the white space of the pretty
\* printer is left out) and its mode: "rw" when the process may read and
\* write it, "wo" when it may only write it (0200).
File(kind, doc, mode) == [kind |-> kind, doc |-> doc, mode |-> mode]

Absent == File("absent", <<>>, "rw")

Corrupt == File("corrupt", <<>>, "rw")

\* A file the process may read and whose bytes are not UTF-8:
\* fs::read_to_string fails with InvalidData.
NotUtf8 == File("binary", <<>>, "rw")

\* A file that exists and that fs::read_to_string cannot read: the process
\* has no permission to read it.  Its bytes, which the process never sees,
\* are not a rule array until a save writes one.
Unreadable == File("corrupt", <<>>, "wo")

Json(doc) == File("json", doc, "rw")

Entry(tok, val) == [rule_type |-> tok, value |-> val]

\* What the file may hold when the process first starts: it is written by
\* earlier runs and by hand.
InitialFiles ==
  { Absent,
    Unreadable,
    NotUtf8,
    Corrupt,
    Json(<<Entry(SerdeUppercase("Domain"), StrBang),
           Entry(SerdeUppercase("DstPort"), StrPort),
           Entry(SerdeUppercase("DstPort"), StrPort)>>),
    Json(<<Entry(toToken("IpCidr"), StrNet)>>) }

(***************************************************************************)
(* Bounds                                                                  *)
(***************************************************************************)
\* Concurrent requests (tasks of the runtime).
NumProcs == 2

\* Requests accepted, over all the lifetimes of the process.
MaxReq == 2

\* Times the process is started.
MaxBoots == 2

Procs == 1..NumProcs

(***************************************************************************)
(* State                                                                   *)
(***************************************************************************)
VARIABLES
  RULES,      \* static RULES: the Vec<Rule> inside the Mutex
  lock,       \* the Mutex: 0 when free, else the task holding the guard
  file,       \* the content of RULES_FILE
  phase,      \* "boot" before main has run load_rules, "serving" after
  loadResult, \* what load_rules returned to main
  pc,         \* where each task is in its handler ("idle": no request)
  op,         \* the handler the task runs: "add", "delete", "get" or "none"
  arg,        \* the Rule of the request body
  resp,       \* the response the last step sent, if it sent one
  nreq,       \* requests accepted so far
  boots,      \* times the process has started
  reg,        \* the registry exercised alone: a kind, a token, their images
  chk,        \* validate exercised alone: a value, the rule made of it, the result
  \* history, read by the properties only
  bootRules,  \* RULES as load_rules left it
  ioFailed,   \* a write of the file has failed since the process started
  fileWritten,\* a write of the file has succeeded since the process started
  saved,      \* the collection the file holds from the last successful save
  nlock,      \* lock acquisitions of the task's request
  snap        \* RULES as the task's request left it after its own mutation

vars ==
  <<RULES, lock, file, phase, loadResult, pc, op, arg, resp, nreq, boots, reg, chk,
    bootRules, ioFailed, fileWritten, saved, nlock, snap>>

NotSaved == [valid |-> FALSE, rules |-> <<>>]

Pending == Res("Pending")

NoResp ==
  [op |-> "none", rule |-> NoRule, result |-> Pending, body |-> <<>>,
   nlock |-> 0, write |-> "none"]

(***************************************************************************)
(* Collection and codec helpers                                            *)
(***************************************************************************)
\* A membership test that skips the first element.
ContainsTail(rules, r) == \E i \in 2..Len(rules) : rules[i] = r

\* A membership test that compares the kinds and not the values.
ContainsKind(rules, r) == \E i \in DOMAIN rules : rules[i].rule_type = r.rule_type

\* Vec::contains
Contains(rules, r) == \E i \in DOMAIN rules : rules[i] = r

\* An insertion at the front.
PushFront(rules, r) == <<r>> \o rules

\* Vec::push: r becomes the last element.
Push(rules, r) == Append(rules, r)

\* A removal of the first element equal to r only.
RECURSIVE RemoveFirst(_, _)
RemoveFirst(rules, r) ==
  IF rules = <<>> THEN <<>>
  ELSE IF Head(rules) = r THEN Tail(rules)
  ELSE <<Head(rules)>> \o RemoveFirst(Tail(rules), r)

\* Vec::retain(|x| x != r): the elements that differ from r, in order.
RECURSIVE Retain(_, _)
Retain(rules, r) ==
  IF rules = <<>> THEN <<>>
  ELSE IF Head(rules) # r THEN <<Head(rules)>> \o Retain(Tail(rules), r)
  ELSE Retain(Tail(rules), r)

\* serde_json::to_string_pretty(&Vec<Rule>): one entry per rule, in order.
ToJson(rules) ==
  Json([i \in DOMAIN rules |->
          Entry(serializeRuleType(rules[i].rule_type), rules[i].value)])

\* serde_json::from_str::<Vec<Rule>>: the rules, or an error when the text is
\* no array of rule objects or names an unknown kind.
FromJsonOk(f) ==
  /\ f.kind = "json"
  /\ \A i \in DOMAIN f.doc : fromToken(f.doc[i].rule_type) # UnknownVariant

FromJson(f) ==
  [i \in DOMAIN f.doc |-> Rule(fromToken(f.doc[i].rule_type), f.doc[i].value)]

\* get_rules' text: a line "<token>,<value>\n" per rule.
RECURSIVE RulesText(_)
RulesText(rules) ==
  IF rules = <<>> THEN <<>>
  ELSE toToken(Head(rules).rule_type) \o <<",">> \o Head(rules).value \o <<"\n">>
         \o RulesText(Tail(rules))

(***************************************************************************)
(* Process start: main and load_rules                                      *)
(***************************************************************************)
NoToken == <<"?">>

RegIdle ==
  [variant |-> "none", token |-> NoToken, display |-> NoToken, written |-> NoToken,
   back |-> "none", parsed |-> "none"]

ChkIdle == [value |-> <<>>, rule |-> NoRule, result |-> Pending]

StoreInit ==
  /\ RULES = <<>>
  /\ lock = 0
  /\ file \in InitialFiles
  /\ phase = "boot"
  /\ loadResult = Pending
  /\ pc = [p \in Procs |-> "idle"]
  /\ op = [p \in Procs |-> "none"]
  /\ arg = [p \in Procs |-> NoRule]
  /\ resp = NoResp
  /\ nreq = 0
  /\ boots = 1
  /\ bootRules = <<>>
  /\ ioFailed = FALSE
  /\ fileWritten = FALSE
  /\ saved = NotSaved
  /\ nlock = [p \in Procs |-> 0]
  /\ snap = [p \in Procs |-> <<>>]

Init == StoreInit /\ reg = RegIdle /\ chk = ChkIdle

\* fs::read_to_string(RULES_FILE) is Ok: the file is there, the process may
\* read it and its bytes are UTF-8.
ReadToStringOk(f) == f.kind \notin {"absent", "binary"} /\ f.mode = "rw"

\* load_rules: a file that cannot be read, whatever the reason, leaves RULES
\* as it is and is no error (if let Ok(content)); a file that is read
\* replaces RULES when it decodes and is a JsonError when it does not.
LoadedRules(f, rules) ==
  IF ReadToStringOk(f) /\ FromJsonOk(f) THEN FromJson(f) ELSE rules

LoadOutcome(f) ==
  IF ~ReadToStringOk(f) THEN Ok
  ELSE IF FromJsonOk(f) THEN Ok
  ELSE Res("JsonError")

\* main: load_rules, a warning on its error, then the server starts.
Load ==
  /\ phase = "boot"
  /\ RULES' = LoadedRules(file, RULES)
  /\ loadResult' = LoadOutcome(file)
  /\ bootRules' = RULES'
  /\ phase' = "serving"
  /\ UNCHANGED <<lock, file, pc, op, arg, resp, nreq, boots, reg, chk, ioFailed,
                 fileWritten, saved, nlock, snap>>

\* The process ends and is started again: RULES is a static of the process,
\* the file stays.
Restart ==
  /\ phase = "serving"
  /\ boots < MaxBoots
  /\ boots' = boots + 1
  /\ RULES' = <<>>
  /\ lock' = 0
  /\ phase' = "boot"
  /\ loadResult' = Pending
  /\ pc' = [p \in Procs |-> "idle"]
  /\ op' = [p \in Procs |-> "none"]
  /\ arg' = [p \in Procs |-> NoRule]
  /\ resp' = NoResp
  /\ bootRules' = <<>>
  /\ ioFailed' = FALSE
  /\ fileWritten' = FALSE
  /\ nlock' = [p \in Procs |-> 0]
  /\ snap' = [p \in Procs |-> <<>>]
  /\ UNCHANGED <<file, saved, nreq, reg, chk>>

(***************************************************************************)
(* Handlers                                                                *)
(***************************************************************************)
\* A request reaches the server, which runs its handler as the first task
\* that is free (tasks are interchangeable).
Arrives(p) ==
  /\ phase = "serving"
  /\ pc[p] = "idle"
  /\ \A q \in Procs : q < p => pc[q] # "idle"
  /\ nreq < MaxReq
  /\ nreq' = nreq + 1

\* The handler o starts with the decoded body r.
Accept(p, o, r) ==
  /\ Arrives(p)
  /\ op' = [op EXCEPT ![p] = o]
  /\ arg' = [arg EXCEPT ![p] = r]

\* A save_rules that takes no lock.
AcquireNothing(p) ==
  /\ lock' = lock
  /\ nlock' = [nlock EXCEPT ![p] = @ + 1]

\* RULES.lock().await, the guard kept across the next await.
Acquire(p) ==
  /\ lock = 0
  /\ lock' = p
  /\ nlock' = [nlock EXCEPT ![p] = @ + 1]

\* The handler returns: the response is sent and the task ends.  nl is the
\* number of lock acquisitions of the request and w what became of its
\* write of the file ("none", "ok" or "failed").
Return(p, o, r, res, text, nl, w) ==
  /\ resp' = [op |-> o, rule |-> r, result |-> res, body |-> text,
              nlock |-> nl, write |-> w]
  /\ pc' = [pc EXCEPT ![p] = "idle"]
  /\ op' = [op EXCEPT ![p] = "none"]
  /\ arg' = [arg EXCEPT ![p] = NoRule]
  /\ nlock' = [nlock EXCEPT ![p] = 0]
  /\ snap' = [snap EXCEPT ![p] = <<>>]

\* The handler goes on to its next await: the step sends no response.
Goto(p, label) ==
  /\ pc' = [pc EXCEPT ![p] = label]
  /\ resp' = NoResp

\* add_rule up to its first await: rule.validate()?, then the lock is asked for.
AddValidate(p, r) ==
  /\ IF validate(r) # Ok
     THEN /\ Arrives(p)
          /\ Return(p, "add", r, validate(r), <<>>, 0, "none")
     ELSE /\ Accept(p, "add", r)
          /\ Goto(p, "add_lock")
          /\ UNCHANGED <<nlock, snap>>
  /\ UNCHANGED <<RULES, lock, file, phase, loadResult, boots, reg, chk, bootRules, ioFailed,
                 fileWritten, saved>>

\* A handler that calls save_rules with its guard still alive.
GuardKept(p) == p

\* drop(rules) before save_rules().await: the lock is free again.
GuardDropped(p) == 0

\* add_rule from the lock to its next await, no other task seeing the steps
\* between: the guard is taken, then the duplicate check returns with the
\* guard dropped, or the rule is pushed and the guard dropped.
AddMutate(p) ==
  /\ pc[p] = "add_lock"
  /\ lock = 0
  /\ IF Contains(RULES, arg[p])
     THEN /\ Return(p, "add", arg[p], Res("DuplicateRule"), <<>>, nlock[p] + 1, "none")
          /\ lock' = 0
          /\ UNCHANGED RULES
     ELSE /\ RULES' = Push(RULES, arg[p])
          /\ lock' = GuardDropped(p)
          /\ snap' = [snap EXCEPT ![p] = RULES']
          /\ nlock' = [nlock EXCEPT ![p] = @ + 1]
          /\ Goto(p, "save_lock")
          /\ UNCHANGED <<op, arg>>
  /\ UNCHANGED <<file, phase, loadResult, nreq, boots, reg, chk, bootRules, ioFailed,
                 fileWritten, saved>>

\* delete_rule up to its first await: the lock is asked for.
DeleteBegin(p, r) ==
  /\ Accept(p, "delete", r)
  /\ Goto(p, "del_lock")
  /\ UNCHANGED <<RULES, lock, file, phase, loadResult, boots, reg, chk, bootRules,
                 ioFailed, fileWritten, saved, nlock, snap>>

\* A test for "nothing removed" that asks whether anything is left.
NoneRemovedIfEmpty(len, rules) == Len(rules) = 0

\* rules.len() == len after the retain: nothing was removed.
NoneRemoved(len, rules) == Len(rules) = len

\* delete_rule from the lock to its next await: the guard is taken, the
\* retain is done, then RuleNotFound is returned with the guard dropped when
\* the length did not change, or the guard is dropped.
DeleteMutate(p) ==
  /\ pc[p] = "del_lock"
  /\ lock = 0
  /\ RULES' = Retain(RULES, arg[p])
  /\ IF NoneRemoved(Len(RULES), RULES')
     THEN /\ Return(p, "delete", arg[p], Res("RuleNotFound"), <<>>, nlock[p] + 1, "none")
          /\ lock' = 0
     ELSE /\ lock' = GuardDropped(p)
          /\ snap' = [snap EXCEPT ![p] = RULES']
          /\ nlock' = [nlock EXCEPT ![p] = @ + 1]
          /\ Goto(p, "save_lock")
          /\ UNCHANGED <<op, arg>>
  /\ UNCHANGED <<file, phase, loadResult, nreq, boots, reg, chk, bootRules, ioFailed,
                 fileWritten, saved>>

\* save_rules up to its await of fs::write: the lock is taken again, and the
\* guard lives until the function returns.
SaveLock(p) ==
  /\ pc[p] = "save_lock"
  /\ Acquire(p)
  /\ Goto(p, "save_write")
  /\ UNCHANGED <<RULES, file, phase, loadResult, op, arg, nreq, boots, reg, chk,
                 bootRules, ioFailed, fileWritten, saved, snap>>

\* A save of the snapshot the request took when it dropped its guard.
SaveSnapshot(rules, snapshot) == ToJson(snapshot)

\* What save_rules serializes: the collection behind the guard it holds,
\* not the collection as the request left it (snapshot).
SaveContent(rules, snapshot) == ToJson(rules)

\* What the handler returns after save_rules().await?.
HandlerReturn(o, saveOk) ==
  IF ~saveOk THEN Res("IoError")
  ELSE IF o = "add" THEN Res("Created")
  ELSE Res("NoContent")

\* The modes a file may be created with, 0666 & ~umask: readable by the
\* process, or not (e.g. 0200 under umask 0477).
CreateModes == {"rw", "wo"}

\* fs::write opens the file with create and truncate and writes the bytes:
\* a file that was there keeps its mode, a file that was not is created
\* with the mode the umask leaves.
Overwrite(old, content, created) ==
  [content EXCEPT !.mode = IF old.kind = "absent" THEN created ELSE old.mode]

\* What a write cut short leaves of the text: a part of it, which is no
\* JSON array, and which is not UTF-8 when the cut falls inside a character
\* of more than one byte.
Truncations(new) ==
  {Corrupt} \cup
    IF \E i \in DOMAIN new.doc :
         \E j \in DOMAIN new.doc[i].value : new.doc[i].value[j] \in MultiByteChars
    THEN {NotUtf8} ELSE {}

\* The file after fs::write: the new content, or on an error the old file
\* (it could not be opened) or a truncated one (the write was cut short
\* after the open; so is the file when the process ends in the write).
WriteOutcomes(old, new) ==
  { [ok |-> TRUE, file |-> Overwrite(old, new, m)] : m \in CreateModes }
    \cup { [ok |-> FALSE, file |-> old] }
    \cup { [ok |-> FALSE, file |-> Overwrite(old, t, m)] :
              t \in Truncations(new), m \in CreateModes }

\* A handler that undoes its mutation when the save fails.
AfterSaveRollback(rules, o, r, saveOk) ==
  IF saveOk THEN rules
  ELSE IF o = "add" THEN Retain(rules, r)
  ELSE Append(rules, r)

\* RULES after save_rules has returned to the handler: the handler passes an
\* error on and undoes nothing.
AfterSave(rules, o, r, saveOk) == rules

\* save_rules at its await of fs::write, the guard held: the text of
\* to_string_pretty is written while the task is suspended, and the task is
\* then ready to go on with the result of the write.  No response exists yet.
SaveWrite(p) ==
  /\ pc[p] = "save_write"
  /\ lock = p
  /\ \E w \in WriteOutcomes(file, SaveContent(RULES, snap[p])) :
        /\ file' = w.file
        /\ ioFailed' = (ioFailed \/ ~w.ok)
        /\ fileWritten' = (fileWritten \/ w.ok)
        /\ saved' = IF w.ok THEN [valid |-> TRUE, rules |-> RULES]
                    ELSE IF w.file = file THEN saved
                    ELSE NotSaved
        /\ Goto(p, IF w.ok THEN "write_ok" ELSE "write_err")
  /\ UNCHANGED <<RULES, lock, phase, loadResult, op, arg, nreq, boots, reg, chk,
                 bootRules, nlock, snap>>

\* The task goes on after the await of fs::write: save_rules returns, its
\* guard dropped, and the handler returns what the ? and the last line make
\* of the result.
SaveReturn(p) ==
  /\ pc[p] \in {"write_ok", "write_err"}
  /\ lock = p
  /\ lock' = 0
  /\ RULES' = AfterSave(RULES, op[p], arg[p], pc[p] = "write_ok")
  /\ Return(p, op[p], arg[p], HandlerReturn(op[p], pc[p] = "write_ok"), <<>>,
            nlock[p], IF pc[p] = "write_ok" THEN "ok" ELSE "failed")
  /\ UNCHANGED <<file, phase, loadResult, nreq, boots, reg, chk, bootRules,
                 ioFailed, fileWritten, saved>>

\* get_rules up to its first await.
GetBegin(p) ==
  /\ Accept(p, "get", NoRule)
  /\ Goto(p, "get_lock")
  /\ UNCHANGED <<RULES, lock, file, phase, loadResult, boots, reg, chk, bootRules,
                 ioFailed, fileWritten, saved, nlock, snap>>

\* get_rules from the lock to its return: the guard is taken, the text is
\* built, and the guard is dropped.
GetRead(p) ==
  /\ pc[p] = "get_lock"
  /\ lock = 0
  /\ lock' = 0
  /\ Return(p, "get", NoRule, Ok, RulesText(RULES), nlock[p] + 1, "none")
  /\ UNCHANGED <<RULES, file, phase, loadResult, nreq, boots, reg, chk, bootRules,
                 ioFailed, fileWritten, saved>>

Next ==
  \/ Load
  \/ Restart
  \/ \E p \in Procs, r \in RuleInputs : AddValidate(p, r)
  \/ \E p \in Procs : AddMutate(p)
  \/ \E p \in Procs, r \in DeleteInputs : DeleteBegin(p, r)
  \/ \E p \in Procs : DeleteMutate(p)
  \/ \E p \in Procs : SaveLock(p)
  \/ \E p \in Procs : SaveWrite(p)
  \/ \E p \in Procs : SaveReturn(p)
  \/ \E p \in Procs : GetBegin(p)
  \/ \E p \in Procs : GetRead(p)

Spec == Init /\ [][Next]_vars

\* A step of a handler past its first await: the lock is taken when it is
\* free, or the write of the file comes to an end.
Progress ==
  \E p \in Procs :
     \/ AddMutate(p) \/ DeleteMutate(p) \/ SaveLock(p)
     \/ SaveWrite(p) \/ SaveReturn(p) \/ GetRead(p)

\* The runtime goes on polling the tasks that can go on, and a write of the
\* file ends: while some handler can take a step, one does.  Requests
\* arrive or not, and the process is restarted or not.
Fairness == WF_vars(Progress)

FairSpec == Spec /\ Fairness

(***************************************************************************)
(* The registry alone: a kind and a token are drawn, and the three         *)
(* mappings are applied to them.                                           *)
(***************************************************************************)
storeVars ==
  <<RULES, lock, file, phase, loadResult, pc, op, arg, resp, nreq, boots,
    bootRules, ioFailed, fileWritten, saved, nlock, snap>>

\* Tokens a request body or the file may carry: what Display prints, what
\* the serde derive writes, and strings that name no kind.
TokenInputs ==
  {toToken(v) : v \in RuleType} \cup {SerdeUppercase(v) : v \in RuleType}
    \cup {VariantIdent["Domain"], <<>>, <<"I", "P">>}

RegInit ==
  /\ StoreInit
  /\ file = Absent
  /\ chk = ChkIdle
  /\ \E v \in RuleType, t \in TokenInputs :
        reg = [RegIdle EXCEPT !.variant = v, !.token = t]

\* rule_type.to_string() in get_rules
RegDisplay ==
  /\ reg.display = NoToken
  /\ reg' = [reg EXCEPT !.display = toToken(reg.variant)]
  /\ UNCHANGED <<storeVars, chk>>

\* the kind as to_string_pretty writes it in save_rules
RegSerialize ==
  /\ reg.written = NoToken
  /\ reg' = [reg EXCEPT !.written = serializeRuleType(reg.variant)]
  /\ UNCHANGED <<storeVars, chk>>

\* the printed token read back as the "rule_type" of a body or of the file
RegReadBack ==
  /\ reg.display # NoToken
  /\ reg.back = "none"
  /\ reg' = [reg EXCEPT !.back = fromToken(reg.display)]
  /\ UNCHANGED <<storeVars, chk>>

\* any token read as the "rule_type" of a body or of the file
RegParse ==
  /\ reg.parsed = "none"
  /\ reg' = [reg EXCEPT !.parsed = fromToken(reg.token)]
  /\ UNCHANGED <<storeVars, chk>>

RegNext == RegDisplay \/ RegSerialize \/ RegReadBack \/ RegParse

SpecRegistry == RegInit /\ [][RegNext]_vars

(***************************************************************************)
(* validate alone: a value is drawn, and validate is applied to the rule   *)
(* that each kind makes of it.                                             *)
(***************************************************************************)
\* The characters the drawn values are made of: a digit, a letter (a hex
\* digit too), the separators of the three grammars, and characters that no
\* grammar has.
ValueChars == {"1", "a", "-", "+", ".", "_", "!", "/", ":"}

\* Longest value drawn character by character.
MaxLen == 4

StringsUpTo(n) == UNION {[1..k -> ValueChars] : k \in 0..n}

\* Longer values: the ones the documentation names, and the edges of the
\* number ranges.
ExampleValues ==
  { <<"8", "0">>,
    <<"8", "0", "-", "4", "4", "3">>,
    <<"4", "4", "3", "-", "8", "0">>,
    <<"a", "b", "c">>,
    <<"7", "0", "0", "0", "0">>,
    <<"8", "0", "-">>,
    <<"-", "8", "0">>,
    <<"1", "-", "2", "-", "3">>,
    <<"+", "8", "0">>,
    <<"6", "5", "5", "3", "5">>,
    <<"6", "5", "5", "3", "6">>,
    <<"0", "0", "8", "0">>,
    <<"8", "0", "-", "+", "4", "4", "3">>,
    <<"e", "x", "a", "m", "p", "l", "e", ".", "c", "o", "m">>,
    <<"a", ".", "b">>,
    <<"-", "b", "a", "d", "-">>,
    <<"a", "b">>,
    <<"a", ".", ".", "b", "!">>,
    <<"A", "_", "b", "-", "9", ".", "Z">>,
    <<"1", "0", ".", "0", ".", "0", ".", "0", "/", "8">>,
    <<":", ":", "1", "/", "1", "2", "8">>,
    <<"n", "o", "t", "-", "a", "n", "-", "i", "p">>,
    <<"1", "0", ".", "0", ".", "0", ".", "0", "/", "9", "9">>,
    <<"1", "0", ".", "0", ".", "0", ".", "0">>,
    <<"1", "0", ".", "0", ".", "0", ".", "0", "/", "3", "2">>,
    <<"1", "0", ".", "0", ".", "0", ".", "0", "/", "3", "3">>,
    <<":", ":", "/", "1", "2", "9">>,
    <<":", ":", "1">>,
    <<"1", "9", "2", ".", "1", "6", "8", ".", "0", ".", "0", "/", "1", "6">>,
    <<"1", ":", "2", ":", "3", ":", "4", ":", "5", ":", "6", ":", "7", ":", "8", "/", "6", "4">>,
    <<"f", "e", "8", "0", ":", ":", "1", "/", "6", "4">>,
    <<":", ":", "f", "f", "f", "f", ":", "1", ".", "2", ".", "3", ".", "4", "/", "9", "6">>,
    <<"2", "5", "6", ".", "0", ".", "0", ".", "0", "/", "8">>,
    <<"1", "0", ".", "0", ".", "0", "/", "8">> }

ValueInputs == StringsUpTo(MaxLen) \cup ExampleValues

ValInit ==
  /\ StoreInit
  /\ file = Absent
  /\ reg = RegIdle
  /\ \E v \in ValueInputs : chk = [ChkIdle EXCEPT !.value = v]

\* rule.validate() on the rule of kind k with the drawn value
CallValidate(k) ==
  /\ chk.rule = NoRule
  /\ chk' = [chk EXCEPT !.rule = Rule(k, chk.value),
                        !.result = validate(Rule(k, chk.value))]
  /\ UNCHANGED <<storeVars, reg>>

ValNext == \E k \in RuleType : CallValidate(k)

SpecValidate == ValInit /\ [][ValNext]_vars

(***************************************************************************)
(* Properties of the store                                                 *)
(***************************************************************************)
\* Steps of the handlers, recognized from the two states of a step.
AddMutates(p) == pc[p] = "add_lock" /\ pc'[p] # "add_lock" /\ boots' = boots

DeleteMutates(p) == pc[p] = "del_lock" /\ pc'[p] # "del_lock" /\ boots' = boots

SaveWrites(p) == pc[p] = "save_write" /\ pc'[p] # "save_write" /\ boots' = boots

SaveReturns(p) ==
  pc[p] \in {"write_ok", "write_err"} /\ pc'[p] = "idle" /\ boots' = boots

Quiescent == \A p \in Procs : pc[p] = "idle"

Present(rules, r) == \E i \in 1..Len(rules) : rules[i] = r

NoTwoEqual(rules) ==
  \A i, j \in 1..Len(rules) : i # j => rules[i] # rules[j]

\* C1: when the process started with an empty collection, no interleaving
\* of add and remove requests leaves two equal rules (same rule_type, same
\* value) in RULES.
C1_NoTwoEqual == bootRules = <<>> => NoTwoEqual(RULES)

\* A rule was added to the empty collection, and an add of the same rule
\* has just been refused.
C1_Witness ==
  /\ bootRules = <<>>
  /\ Len(RULES) = 1
  /\ resp.op = "add"
  /\ resp.result = Res("DuplicateRule")
  /\ Present(RULES, resp.rule)

IllFormedInputs ==
  { Rule("Domain", StrBang), Rule("IpCidr", StrPort), Rule("DstPort", StrDomain) }

WellFormed(rules) == \A i \in 1..Len(rules) : validate(rules[i]) = Ok

\* C2: in every state, after load_rules too, every rule of RULES passes
\* Rule::validate.
C2_NeverIllFormed == WellFormed(RULES)

\* C3: an add of a rule that is not in appends it (the length grows by
\* exactly 1) and returns 201 when its save succeeds; an add of a rule that
\* is in returns DuplicateRule, leaves RULES as it is and writes no file.
C3_AddTwice ==
  [][\A p \in Procs :
       /\ AddMutates(p) /\ ~Present(RULES, arg[p]) =>
            /\ Len(RULES') = Len(RULES) + 1
            /\ Present(RULES', arg[p])
            /\ pc'[p] = "save_lock"
       /\ AddMutates(p) /\ Present(RULES, arg[p]) =>
            /\ resp' = [op |-> "add", rule |-> arg[p], result |-> Res("DuplicateRule"),
                        body |-> <<>>, nlock |-> 1, write |-> "none"]
            /\ RULES' = RULES
            /\ file' = file
            /\ pc'[p] = "idle"
       /\ SaveReturns(p) /\ op[p] = "add" /\ resp'.write = "ok" =>
            resp'.result = Res("Created")
    ]_vars

\* A rule was added with 201, nothing else was ever in, and the same rule
\* added again has just been refused.
C3_Witness ==
  /\ bootRules = <<>>
  /\ nreq = 2
  /\ Quiescent
  /\ Len(RULES) = 1
  /\ fileWritten /\ ~ioFailed
  /\ resp.op = "add"
  /\ resp.rule = RULES[1]
  /\ resp.result = Res("DuplicateRule")

ValidationTag(kind) ==
  IF kind \in {"IpCidr", "IpCidr6", "SrcIpCidr"} THEN "InvalidIpCidr"
  ELSE IF kind \in {"Domain", "DomainSuffix", "DomainKeyword"} THEN "InvalidDomain"
  ELSE "InvalidPort"

\* C4: an add whose value fails the grammar of its kind goes no further
\* than validate: it returns the validation error of the kind with the
\* value as given, takes no lock, leaves RULES and the file as they are,
\* and does so whether or not an equal rule is in RULES.
C4_InvalidAdd ==
  [][nreq' = nreq + 1 =>
       /\ \A p \in Procs : pc'[p] = "add_lock" /\ pc[p] = "idle" =>
             arg'[p] \notin IllFormedInputs
       /\ pc' = pc =>
             /\ resp'.op = "add"
             /\ resp'.rule \in IllFormedInputs
             /\ resp'.result = [tag |-> ValidationTag(resp'.rule.rule_type),
                                value |-> resp'.rule.value]
             /\ resp'.nlock = 0
             /\ resp'.write = "none"
             /\ RULES' = RULES /\ lock' = lock /\ file' = file /\ nlock' = nlock
    ]_vars

\* An ill-formed rule that is in RULES (it came from the file) was given to
\* add while another request held the lock, and add answered InvalidDomain.
C4_Witness ==
  /\ resp.op = "add"
  /\ resp.result = Err("InvalidDomain", StrBang)
  /\ Present(RULES, resp.rule)
  /\ lock # 0

\* C5: a remove of a rule that is in removes every element equal to it and
\* no other, the others keeping their order, and returns 204 when its save
\* succeeds.
C5_RemoveExact ==
  [][\A p \in Procs :
       /\ DeleteMutates(p) /\ Present(RULES, arg[p]) =>
            /\ RULES' = SelectSeq(RULES, LAMBDA x : x # arg[p])
            /\ ~Present(RULES', arg[p])
            /\ pc'[p] = "save_lock"
       /\ SaveReturns(p) /\ op[p] = "delete" /\ resp'.write = "ok" =>
            resp'.result = Res("NoContent")
    ]_vars

\* Of the rules the file brought in, one was removed with 204 and exactly
\* the others are left.
C5_Witness ==
  /\ nreq = 1
  /\ Quiescent
  /\ resp.op = "delete"
  /\ resp.result = Res("NoContent")
  /\ Len(bootRules) = 3
  /\ Len(RULES) = 2
  /\ \A i \in 1..Len(RULES) : RULES[i] # resp.rule /\ Present(bootRules, RULES[i])

\* C6: a remove of a rule that is not in returns RuleNotFound, leaves RULES
\* as it is, leaves the lock free and writes no file.
C6_RemoveAbsent ==
  [][\A p \in Procs :
       DeleteMutates(p) /\ ~Present(RULES, arg[p]) =>
         /\ resp' = [op |-> "delete", rule |-> arg[p], result |-> Res("RuleNotFound"),
                     body |-> <<>>, nlock |-> 1, write |-> "none"]
         /\ RULES' = RULES
         /\ lock' = 0
         /\ file' = file
         /\ pc'[p] = "idle"
    ]_vars

\* A rule from the file was removed with 204 and the file written; the same
\* remove, sent again, has just returned RuleNotFound, other rules being in.
C6_Witness ==
  /\ nreq = 2
  /\ Quiescent
  /\ fileWritten
  /\ Present(bootRules, resp.rule)
  /\ resp.op = "delete"
  /\ resp.result = Res("RuleNotFound")
  /\ RULES # <<>>

\* C7: when the write of the file fails, the handler returns the I/O error
\* and RULES stays as it was: a rule added by the request is still in, a
\* rule it removed is still out (unless another request has changed RULES
\* since).
C7_NoRollback ==
  [][\A p \in Procs :
       SaveReturns(p) /\ resp'.write = "failed" =>
         /\ resp'.result = Res("IoError")
         /\ resp'.op = op[p] /\ resp'.rule = arg[p]
         /\ RULES' = RULES
         /\ RULES = snap[p] /\ op[p] = "add" => Present(RULES', arg[p])
         /\ RULES = snap[p] /\ op[p] = "delete" => ~Present(RULES', arg[p])
    ]_vars

\* No write has succeeded, the one rule in RULES was added by a request
\* whose save failed, and the same rule added again has been refused.
C7_Witness ==
  /\ bootRules = <<>>
  /\ Quiescent
  /\ ioFailed /\ ~fileWritten
  /\ Len(RULES) = 1
  /\ resp.op = "add"
  /\ resp.rule = RULES[1]
  /\ resp.result = Res("DuplicateRule")

\* The content of the file is the JSON text of the rules, whatever its mode.
Holds(f, rules) == f.kind = "json" /\ f.doc = ToJson(rules).doc

\* C8: when every request has returned and no write of the file has
\* failed, the content of the file is RULES, rule for rule and in order (or
\* no request has changed RULES and none has written the file).
C8_FileIsLatest ==
  Quiescent /\ phase = "serving" /\ ~ioFailed =>
    \/ Holds(file, RULES)
    \/ ~fileWritten /\ RULES = bootRules

\* Two adds have returned, the last with 201; two rules are in and in the
\* file.
C8_Witness ==
  /\ Quiescent /\ phase = "serving" /\ ~ioFailed
  /\ fileWritten
  /\ nreq = 2
  /\ bootRules = <<>>
  /\ Len(RULES) = 2
  /\ Holds(file, RULES)
  /\ resp.result = Res("Created")

\* C9: for every kind, the token Display prints is the token the JSON
\* decoding maps back to that kind and the token written to the file.
C9_TokenRoundTrip ==
  /\ reg.back # "none" => reg.back = reg.variant
  /\ reg.display # NoToken /\ reg.written # NoToken => reg.written = reg.display

\* C10: load_rules run on a file that the last successful
\* save_rules wrote returns Ok and leaves in RULES the collection that was
\* saved, rule for rule and in order.
C10_SaveLoad ==
  [][phase = "boot" /\ phase' = "serving" /\ saved.valid =>
       /\ loadResult' = Ok
       /\ RULES' = saved.rules
       /\ Len(RULES') = Len(file.doc)
    ]_vars

\* The step of main that runs load_rules.
Loads == phase = "boot" /\ phase' = "serving"

\* C11: load_rules returns Ok with an empty collection when the file does
\* not exist, and an existing file that cannot be read is not taken for an
\* absent one: it is reported as IoError.
C11_AbsentOnly ==
  [][Loads =>
       /\ file.kind = "absent" => loadResult' = Ok /\ RULES' = <<>>
       /\ file.kind # "absent" /\ ~ReadToStringOk(file) =>
            loadResult' = Res("IoError")
    ]_vars

\* C12: when the file exists, is read and does not decode at startup,
\* load_rules returns an error and leaves RULES as it is, and for the rest
\* of that run of the process no save of add or remove writes over the file.
C12_CorruptKept ==
  [][/\ Loads /\ ReadToStringOk(file) /\ ~FromJsonOk(file) =>
          loadResult' = Res("JsonError") /\ RULES' = RULES
     /\ loadResult = Res("JsonError") /\ boots' = boots => file' = file
    ]_vars

GetReads(p) == pc[p] = "get_lock" /\ pc'[p] # "get_lock" /\ boots' = boots

\* The text of the first n rules, a line "<token>,<value>\n" each, the
\* line of rule n last.
RECURSIVE LinesUpTo(_, _)
LinesUpTo(rules, n) ==
  IF n = 0 THEN <<>>
  ELSE LinesUpTo(rules, n - 1)
         \o toToken(rules[n].rule_type) \o <<",">> \o rules[n].value \o <<"\n">>

\* C13: a successful add puts its rule last and changes no other element;
\* a remove keeps the order of what it leaves; no other step of a request
\* changes RULES; get_rules lists the rules, and save_rules writes them, in
\* the order they have in RULES.  So the order listed and written is the
\* order in which the adds took the lock.
C13_InsertionOrder ==
  [][/\ \A p \in Procs :
          /\ AddMutates(p) /\ ~Present(RULES, arg[p]) =>
               /\ Len(RULES') = Len(RULES) + 1
               /\ RULES'[Len(RULES')] = arg[p]
               /\ \A i \in 1..Len(RULES) : RULES'[i] = RULES[i]
          /\ DeleteMutates(p) =>
               RULES' = SelectSeq(RULES, LAMBDA x : x # arg[p])
          /\ GetReads(p) => resp'.body = LinesUpTo(RULES, Len(RULES))
          /\ SaveWrites(p) /\ pc'[p] = "write_ok" =>
               /\ Len(file'.doc) = Len(RULES)
               /\ \A i \in 1..Len(RULES) :
                     /\ fromToken(file'.doc[i].rule_type) = RULES[i].rule_type
                     /\ file'.doc[i].value = RULES[i].value
     /\ boots' = boots /\ ~Loads
          /\ (\A p \in Procs : ~AddMutates(p) /\ ~DeleteMutates(p)) => RULES' = RULES
    ]_vars

\* The file brought three rules in, a fourth was added, and a list has just
\* returned the four lines, the added rule's last.
C13_Witness ==
  /\ Len(bootRules) = 3
  /\ Len(RULES) = 4
  /\ SubSeq(RULES, 1, 3) = bootRules
  /\ RULES[4] = Rule("Domain", StrDomain)
  /\ resp.op = "get"
  /\ resp.body = LinesUpTo(RULES, 4)
  /\ Len(resp.body) > 0

(***************************************************************************)
(* Properties of validate                                                  *)
(***************************************************************************)
Validated == chk.rule # NoRule

Accepted == chk.result = Ok

\* The number a string of decimal digits writes.
RECURSIVE DecimalValue(_)
DecimalValue(s) ==
  IF s = <<>> THEN 0
  ELSE 10 * DecimalValue(SubSeq(s, 1, Len(s) - 1)) + DigitValue(s[Len(s)], 10)

\* An integer written in decimal digits.
IsDecimal(s) == s # <<>> /\ \A i \in 1..Len(s) : IsDigit(s[i])

\* An integer in [0, 65535].
IsPortNumber(s) == IsDecimal(s) /\ DecimalValue(s) <= U16Max

\* One port number, or two with one hyphen between them.
IsPortOrRange(s) ==
  \/ IsPortNumber(s)
  \/ \E i \in 1..Len(s) :
        /\ s[i] = "-"
        /\ IsPortNumber(SubSeq(s, 1, i - 1))
        /\ IsPortNumber(SubSeq(s, i + 1, Len(s)))

\* C14: for DstPort, SrcPort and InPort, validate accepts a value if and
\* only if it is one integer in [0, 65535] or two such integers with
\* exactly one hyphen between them, in either order; every other value is
\* rejected with InvalidPort carrying the value.
C14_PortGrammar ==
  Validated /\ chk.rule.rule_type \in {"DstPort", "SrcPort", "InPort"} =>
    /\ Accepted <=> IsPortOrRange(chk.value)
    /\ ~Accepted => chk.result = Err("InvalidPort", chk.value)

\* The grammar of the domain kinds, in the words of the documentation.
IsDomainText(s) ==
  /\ Len(s) >= 3
  /\ IsAlnum(s[1])
  /\ IsAlnum(s[Len(s)])
  /\ \A i \in 2..(Len(s) - 1) : IsAlnum(s[i]) \/ s[i] \in {"-", "_", "."}

\* C15: for Domain, DomainSuffix and DomainKeyword, validate accepts a
\* value if and only if it has at least 3 characters, the first and the
\* last ASCII alphanumeric, every one between them alphanumeric, hyphen,
\* underscore or dot; every other value is rejected with InvalidDomain
\* carrying the value.
C15_DomainGrammar ==
  Validated /\ chk.rule.rule_type \in {"Domain", "DomainSuffix", "DomainKeyword"} =>
    /\ Accepted <=> IsDomainText(chk.value)
    /\ ~Accepted => chk.result = Err("InvalidDomain", chk.value)

\* A DomainKeyword of three characters with an underscore between two
\* alphanumerics has been accepted.
C15_Witness ==
  /\ chk.rule = Rule("DomainKeyword", <<"a", "_", "1">>)
  /\ Accepted

\* The textual forms of the two address families.  An octet is one to three
\* decimal digits writing at most 255; a group is one to four hex digits.
IsOctet(o) == Len(o) \in 1..3 /\ IsDecimal(o) /\ DecimalValue(o) <= 255

IsHexGroup(g) == Len(g) \in 1..4 /\ \A i \in 1..Len(g) : DigitValue(g[i], 16) >= 0

\* Four octets with dots between them.
IsIpv4Text(a) ==
  LET p == Split(a, ".") IN Len(p) = 4 /\ \A i \in 1..4 : IsOctet(p[i])

\* The number of 16-bit groups a colon-separated list writes, a dotted
\* IPv4 address being allowed in the last place (when v4Last) and standing
\* for two; -1 when the text is no such list.  The empty text writes none.
GroupsOf(t, v4Last) ==
  IF t = <<>> THEN 0
  ELSE LET p == Split(t, ":")
           n == Len(p)
       IN  IF \E i \in 1..(n - 1) : ~IsHexGroup(p[i]) THEN -1
           ELSE IF IsHexGroup(p[n]) THEN n
           ELSE IF v4Last /\ IsIpv4Text(p[n]) THEN n + 1
           ELSE -1

\* Eight groups, or fewer with one "::" standing for the groups left out.
IsIpv6Text(a) ==
  \/ GroupsOf(a, TRUE) = 8
  \/ \E i \in 1..(Len(a) - 1) :
        /\ a[i] = ":" /\ a[i + 1] = ":"
        /\ LET l == GroupsOf(SubSeq(a, 1, i - 1), FALSE)
               r == GroupsOf(SubSeq(a, i + 2, Len(a)), TRUE)
           IN  l >= 0 /\ r >= 0 /\ l < 8 /\ l + r <= 8

\* A prefix length: decimal digits, at most as many as the largest length
\* of the family has, writing at most that length.
IsPrefixLen(p, digits, max) ==
  Len(p) \in 1..digits /\ IsDecimal(p) /\ DecimalValue(p) <= max

\* An address of either family, "/", and a prefix length of that family.
IsNetLiteral(s) ==
  \E i \in 1..Len(s) :
     /\ s[i] = "/"
     /\ LET a == SubSeq(s, 1, i - 1)
            p == SubSeq(s, i + 1, Len(s))
        IN  \/ IsIpv4Text(a) /\ IsPrefixLen(p, 2, 32)
            \/ IsIpv6Text(a) /\ IsPrefixLen(p, 3, 128)

\* C16: for IpCidr, IpCidr6 and SrcIpCidr alike, validate accepts a value
\* if and only if it is an address of either family followed by "/" and a
\* prefix length (at most 32 for IPv4, at most 128 for IPv6), whichever of
\* the three kinds is declared; a value with no prefix or with a prefix
\* length out of range is rejected, and every rejection is InvalidIpCidr
\* carrying the value.
C16_IpNetGrammar ==
  Validated /\ chk.rule.rule_type \in {"IpCidr", "IpCidr6", "SrcIpCidr"} =>
    /\ Accepted <=> IsNetLiteral(chk.value)
    /\ ~Accepted => chk.result = Err("InvalidIpCidr", chk.value)

\* An IPv4 network has been accepted under IpCidr6.
C16_Witness ==
  /\ chk.rule = Rule("IpCidr6", StrNet)
  /\ IsNetLiteral(chk.value)
  /\ Accepted

\* The 20 kinds outside the IP-network, domain and port classes.
UngrammaredKinds ==
  { "DomainWildcard", "DomainRegex", "Geosite", "IpSuffix", "IpAsn",
    "Geoip", "SrcGeoip", "SrcIpAsn", "SrcIpSuffix", "InType", "InUser",
    "InName", "ProcessPath", "ProcessPathRegex", "ProcessName", "ProcessNameRegex",
    "Uid", "Network", "Dscp", "Match" }

\* C17 as claimed: for each of the 20 kinds outside the three classes,
\* validate accepts every non-empty string and does not accept the empty
\* string.
C17_NonEmptyOnly ==
  Validated /\ chk.rule.rule_type \in UngrammaredKinds =>
    (Accepted <=> chk.value # <<>>)

\* C17, amended: for each of the 20 kinds outside the three classes (and
\* they are all the kinds outside them), validate accepts every string, the
\* empty string too.
C17_AnyString ==
  /\ UngrammaredKinds = RuleType \ (IpNetKinds \cup DomainKinds \cup PortKinds)
  /\ Validated /\ chk.rule.rule_type \in UngrammaredKinds => Accepted

\* The empty string has been accepted as the value of a Match rule.
C17_Witness ==
  /\ chk.rule = Rule("Match", <<>>)
  /\ Accepted

(***************************************************************************)
(* Properties of the lock                                                  *)
(***************************************************************************)
Writing(p) == pc[p] = "save_write"

\* The write has ended and save_rules has not returned yet.
Written(p) == pc[p] \in {"write_ok", "write_err"}

\* C18 as claimed: the lock is never held while the file is being written:
\* it is free while a request's write is in progress, so that another
\* request can take it then.
C18_WriteUnlocked == \A p \in Procs : Writing(p) => lock = 0

\* C18, amended: add and remove drop their guard after the mutation, before
\* save_rules is called; save_rules takes the lock again and holds it while
\* the file is written and until it returns, so that the file changes only
\* under the lock and no other request takes the lock, or changes RULES,
\* while a write is in progress.
C18_WriteLocked ==
  [][/\ \A p \in Procs :
          /\ pc[p] = "save_lock" => lock # p
          /\ Writing(p) \/ Written(p) => lock = p
          /\ boots' = boots /\ pc'[p] \in {"save_write", "write_ok", "write_err"} =>
               lock' = p
          /\ boots' = boots /\ (Writing(p) \/ Written(p)) /\ pc'[p] = pc[p] =>
               lock' = lock /\ nlock' = nlock /\ RULES' = RULES /\ file' = file
     /\ file' # file => \E p \in Procs : SaveWrites(p) /\ lock = p
    ]_vars

\* A request is writing the file with the lock held while another one,
\* which came later, waits for the lock.
C18_Witness ==
  \E p, q \in Procs :
     /\ Writing(p) /\ lock = p
     /\ pc[q] \in {"add_lock", "del_lock", "get_lock", "save_lock"}

\* C19 as claimed: what a request's save writes is the collection as the
\* request left it when it pushed or removed its rule, whatever other
\* requests did to RULES since.
C19_WritesSnapshot ==
  [][\A p \in Procs :
       SaveWrites(p) /\ pc'[p] = "write_ok" => Holds(file', snap[p])
    ]_vars

\* C19, amended: what a request's save writes is the collection as it is
\* when save_rules holds the lock, the mutations that other requests
\* applied since the request's own included.
C19_WritesCurrent ==
  [][\A p \in Procs :
       SaveWrites(p) /\ pc'[p] = "write_ok" =>
         /\ Holds(file', RULES)
         /\ saved'.rules = RULES
         /\ RULES' = RULES
    ]_vars

\* Two adds on an empty collection: the first has returned 201, the second
\* has pushed its rule and has not written yet, and the file already
\* holds both rules.
C19_Witness ==
  /\ bootRules = <<>>
  /\ nreq = 2
  /\ resp.op = "add" /\ resp.write = "ok"
  /\ Len(RULES) = 2
  /\ RULES[1] = resp.rule
  /\ Holds(file, RULES)
  /\ \E q \in Procs : pc[q] = "save_lock" /\ snap[q] = RULES

\* C20: under fair scheduling and writes that end, every request returns,
\* whichever way it goes (no task stays in a handler for ever: each is idle
\* again and again); a task that has returned or is about to call
\* save_rules does not hold the lock, and the lock is held only by a task
\* writing the file.
C20_NoBlocking ==
  /\ [](\A p \in Procs : pc[p] \in {"idle", "save_lock"} => lock # p)
  /\ [](lock # 0 => pc[lock] \in {"save_write", "write_ok", "write_err"})
  /\ \A p \in Procs : []<>(pc[p] = "idle")

\* A request has just returned an I/O error with the lock free, while
\* another request is still on its way.
C20_Witness ==
  /\ resp.result = Res("IoError")
  /\ lock = 0
  /\ \E q \in Procs : pc[q] # "idle"

=============================================================================
